---- MODULE Spec2Model ----
(***************************************************************************)
(* Model of the wav-to-midi converter:                                     *)
(*   businesslogic/wav_to_midi.py  (class WavToMidi: transition matrix,    *)
(*   prior matrix, segmentation of the decoded states, MIDI emission) and  *)
(*   app.py (the two Flask upload handlers).                               *)
(*                                                                         *)
(* Python floats are modelled as exact rationals [n, d] in lowest terms    *)
(* with d > 0; note names ('A2') are modelled by their MIDI numbers, the   *)
(* value librosa.note_to_midi resolves them to.                            *)
(***************************************************************************)
EXTENDS Integers, Sequences, FiniteSets, TLC

\* ------------------------------------------------------------------------
\* Bounds of the model
\* ------------------------------------------------------------------------
\* largest number of notes in a valid note range
MaxNotes == 2
\* largest number of analysis frames of a signal
MaxFrames == 3
\* largest length of a state sequence handed to the segmenter directly
MaxLen == 5

\* ------------------------------------------------------------------------
\* Float arithmetic, as exact rationals
\* ------------------------------------------------------------------------
Abs(x) == IF x < 0 THEN -x ELSE x

RECURSIVE GCD(_, _)
GCD(a, b) == IF b = 0 THEN a ELSE GCD(b, a % b)

\* n / d for d # 0, in lowest terms with a positive denominator
Rat(n, d) ==
    LET s == IF d < 0 THEN -1 ELSE 1
        g == GCD(Abs(n), Abs(d))
    IN  [n |-> (s * n) \div g, d |-> (s * d) \div g]

RInt(k) == [n |-> k, d |-> 1]
RAdd(a, b) == Rat(a.n * b.d + b.n * a.d, a.d * b.d)
RSub(a, b) == Rat(a.n * b.d - b.n * a.d, a.d * b.d)
RMul(a, b) == Rat(a.n * b.n, a.d * b.d)
\* a / b for b # 0
RDiv(a, b) == Rat(a.n * b.d, a.d * b.n)
RLess(a, b) == a.n * b.d < b.n * a.d
RLeq(a, b) == a.n * b.d <= b.n * a.d
\* int(x): truncation toward zero
RTrunc(a) == IF a.n >= 0 THEN a.n \div a.d ELSE -((-a.n) \div a.d)

RECURSIVE RSum(_, _, _)
\* f[lo] + ... + f[hi]
RSum(f, lo, hi) == IF lo > hi THEN RInt(0) ELSE RAdd(f[lo], RSum(f, lo + 1, hi))

\* ------------------------------------------------------------------------
\* State
\* ------------------------------------------------------------------------
VARIABLES
    pc,              \* position in the operation under analysis
    minimum_note,    \* lowest supported note (MIDI number)
    max_note,        \* highest supported note (MIDI number)
    p_stay_note,     \* probability of a sustain state returning to itself
    p_stay_silence,  \* probability of the silence state returning to itself
    tran_matrix,     \* result of build_transition_matrix
    conf,            \* pitch_acc, voiced_acc, onset_acc, spread
    f0_,             \* per frame: the rounded MIDI pitch estimate
    voiced_flag,     \* per frame: the voicing decision
    onsets,          \* the detected onset frames
    prob,            \* result of calc_probabilities
    states,          \* the decoded state sequence
    hop_time,        \* time between two frames, in seconds
    piano_format,    \* result of convert_states_to_pianoroll
    bpm,             \* the estimated tempo
    midi_format,     \* result of convert_pianoroll_to_midi
    error,           \* exception raised by the operation, "none" if none
    files,           \* the server's working directory: path -> content
    request,         \* per request: the route and what the client sent
    rpc,             \* per request: position in its handler
    loaded,          \* per request: the signal y read by convert_file
    failed,          \* per request: the stage that failed, "none" if none
    response         \* per request: the response sent

configVars == <<minimum_note, max_note, p_stay_note, p_stay_silence, conf, hop_time>>
evidenceVars == <<f0_, voiced_flag, onsets>>
coreVars == <<pc, configVars, tran_matrix, evidenceVars, prob, states,
              piano_format, bpm, midi_format, error>>
appVars == <<files, request, rpc, loaded, failed, response>>
vars == <<coreVars, appVars>>

Null == <<>>

\* ------------------------------------------------------------------------
\* WavToMidi.build_transition_matrix
\* ------------------------------------------------------------------------
\* np.zeros((size, size))
Zeros(size) == [r \in 0..(size - 1) |-> [c \in 0..(size - 1) |-> RInt(0)]]

RECURSIVE SilenceRow(_, _, _, _, _)
\* State 0: silence (lines 42-44); i is the loop variable
SilenceRow(m, i, n_notes, p_silence, p_) ==
    IF i >= n_notes THEN m
    ELSE SilenceRow([m EXCEPT ![0][(i * 2) + 1] = p_], i + 1, n_notes, p_silence, p_)

RECURSIVE OnsetRows_self_loop(_, _, _)
\* faulty variant: the onset state is given a self-loop instead of its sustain state
OnsetRows_self_loop(m, i, n_notes) ==
    IF i >= n_notes THEN m
    ELSE OnsetRows_self_loop([m EXCEPT ![(i * 2) + 1][(i * 2) + 1] = RInt(1)], i + 1, n_notes)

RECURSIVE OnsetRows(_, _, _)
\* States 1, 3, 5... = onsets (lines 47-48)
OnsetRows(m, i, n_notes) ==
    IF i >= n_notes THEN m
    ELSE OnsetRows([m EXCEPT ![(i * 2) + 1][(i * 2) + 2] = RInt(1)], i + 1, n_notes)

RECURSIVE SustainToOnsets(_, _, _, _, _)
\* inner loop over j (lines 54-55)
SustainToOnsets(m, i, j, n_notes, p__) ==
    IF j >= n_notes THEN m
    ELSE SustainToOnsets([m EXCEPT ![(i * 2) + 2][(j * 2) + 1] = p__], i, j + 1, n_notes, p__)

RECURSIVE SustainRows(_, _, _, _, _)
\* States 2, 4, 6... = sustains (lines 51-55)
SustainRows(m, i, n_notes, p_note, p__) ==
    IF i >= n_notes THEN m
    ELSE LET m1 == [m EXCEPT ![(i * 2) + 2][0] = p__]
             m2 == [m1 EXCEPT ![(i * 2) + 2][(i * 2) + 2] = p_note]
         IN  SustainRows(SustainToOnsets(m2, i, 0, n_notes, p__), i + 1, n_notes, p_note, p__)

Raise(exc) == [kind |-> "raise", exc |-> exc]
Return(v) == [kind |-> "return", value |-> v]

\* the body of build_transition_matrix once n_notes, p_ and p__ are known
FillMatrix(n_notes, p_note, p_silence, p_, p__) ==
    LET np_matrix == Zeros(2 * n_notes + 1)
        m0 == [np_matrix EXCEPT ![0][0] = p_silence]
        m1 == SilenceRow(m0, 0, n_notes, p_silence, p_)
        m2 == OnsetRows(m1, 0, n_notes)
    IN  SustainRows(m2, 0, n_notes, p_note, p__)

\* faulty variant: the sustain states share the leaving mass among n_notes targets
\* instead of n_notes + 1 (silence forgotten in the divisor)
build_transition_matrix_sustain_divisor(midi_min, midi_max, p_note, p_silence) ==
    LET n_notes == midi_max - midi_min + 1
    IN  IF n_notes = 0 THEN Raise("ZeroDivisionError")
        ELSE IF 2 * n_notes + 1 < 0 THEN Raise("ValueError")
        ELSE Return(FillMatrix(n_notes, p_note, p_silence,
                               RDiv(RSub(RInt(1), p_silence), RInt(n_notes)),
                               RDiv(RSub(RInt(1), p_note), RInt(n_notes))))

\* The python evaluates, in this order: n_notes; p_ (a float divided by the
\* int n_notes: ZeroDivisionError when n_notes = 0); p__ (ZeroDivisionError
\* when n_notes + 1 = 0); np.zeros (ValueError on a negative dimension);
\* the three fill loops.  No argument is validated.
build_transition_matrix(midi_min, midi_max, p_note, p_silence) ==
    LET n_notes == midi_max - midi_min + 1
    IN  IF n_notes = 0 THEN Raise("ZeroDivisionError")
        ELSE IF n_notes + 1 = 0 THEN Raise("ZeroDivisionError")
        ELSE IF 2 * n_notes + 1 < 0 THEN Raise("ValueError")
        ELSE Return(FillMatrix(n_notes, p_note, p_silence,
                               RDiv(RSub(RInt(1), p_silence), RInt(n_notes)),
                               RDiv(RSub(RInt(1), p_note), RInt(n_notes + 1))))

\* ------------------------------------------------------------------------
\* WavToMidi.calc_probabilities
\* ------------------------------------------------------------------------
\* The acoustic collaborators (librosa.pyin, pitch_tuning, hz_to_midi,
\* onset_detect) are inputs: f0 is the sequence f0_ of rounded MIDI pitches
\* (for an unvoiced frame the cast of NaN to int, whatever the platform
\* makes of it), voiced the sequence voiced_flag, onset_set the array onsets.
\* Frame t of the python is element t + 1 of the sequences.

\* np.ones((rows, cols))
Ones(rows, cols) == [s \in 0..(rows - 1) |-> [t \in 0..(cols - 1) |-> RInt(1)]]

\* faulty variant: the one-semitone branch is tested first and also takes the exact match
SustainPrior_spread_first(j, midi_min, pitch, c) ==
    IF Abs(j + midi_min - pitch) <= 1 THEN RMul(c.pitch_acc, c.spread)
    ELSE IF j + midi_min = pitch THEN c.pitch_acc
    ELSE RSub(RInt(1), c.pitch_acc)

\* lines 120-127: the sustain entry of note j at frame t
SustainPrior(j, midi_min, pitch, c) ==
    IF j + midi_min = pitch THEN c.pitch_acc
    ELSE IF Abs(j + midi_min - pitch) = 1 THEN RMul(c.pitch_acc, c.spread)
    ELSE RSub(RInt(1), c.pitch_acc)

RECURSIVE NoteLoop(_, _, _, _, _, _, _, _)
\* lines 114-127: the loop over j at frame t
NoteLoop(P, t, j, n_notes, midi_min, f0, onset_set, c) ==
    IF j >= n_notes THEN P
    ELSE LET P1 == IF t \in onset_set
                   THEN [P EXCEPT ![(j * 2) + 1][t] = c.onset_acc]
                   ELSE [P EXCEPT ![(j * 2) + 1][t] = RSub(RInt(1), c.onset_acc)]
             P2 == [P1 EXCEPT ![(j * 2) + 2][t] = SustainPrior(j, midi_min, f0[t + 1], c)]
         IN  NoteLoop(P2, t, j + 1, n_notes, midi_min, f0, onset_set, c)

RECURSIVE FrameLoop(_, _, _, _, _, _, _, _)
\* lines 105-127: the loop over t
FrameLoop(P, t, n_notes, midi_min, f0, voiced, onset_set, c) ==
    IF t >= Len(f0) THEN P
    ELSE LET P1 == IF voiced[t + 1] = FALSE
                   THEN [P EXCEPT ![0][t] = c.voiced_acc]
                   ELSE [P EXCEPT ![0][t] = RSub(RInt(1), c.voiced_acc)]
         IN  FrameLoop(NoteLoop(P1, t, 0, n_notes, midi_min, f0, onset_set, c),
                       t + 1, n_notes, midi_min, f0, voiced, onset_set, c)

calc_probabilities(f0, voiced, onset_set, midi_min, midi_max, c) ==
    LET n_notes == midi_max - midi_min + 1
    IN  FrameLoop(Ones(n_notes * 2 + 1, Len(f0)), 0, n_notes, midi_min, f0, voiced, onset_set, c)

\* ------------------------------------------------------------------------
\* The sequence decoder (librosa.sequence.viterbi, called at line 253)
\* ------------------------------------------------------------------------
\* Maximum-likelihood path: score[0][s] = init[s] * P[s,0];
\* score[t][s] = max over s' of score[t-1][s'] * A[s',s] * P[s,t], with the
\* argmax as backpointer; ties go to the lowest state index; T = 0 fails.
\* The products are taken over integer weights: every matrix is scaled by
\* the least common multiple of its denominators, which changes no argmax.

LCM(a, b) == (a * b) \div GCD(a, b)

RECURSIVE SetLCM(_)
SetLCM(S) == IF S = {} THEN 1
             ELSE LET x == CHOOSE y \in S : TRUE IN LCM(x, SetLCM(S \ {x}))

\* the entries of a matrix of rationals as integers over a common denominator
Weights(m) ==
    LET D == SetLCM({m[r][c].d : r \in DOMAIN m, c \in UNION {DOMAIN m[x] : x \in DOMAIN m}})
    IN  [r \in DOMAIN m |-> [c \in DOMAIN m[r] |-> m[r][c].n * (D \div m[r][c].d)]]

\* index of the largest value of f over 0..(S-1), the lowest on ties
ArgMax(f, S) ==
    CHOOSE s \in 0..(S - 1) :
        /\ \A s2 \in 0..(S - 1) : f[s2] <= f[s]
        /\ \A s2 \in 0..(s - 1) : f[s2] < f[s]

\* a function as a table of its values: the comparison makes the evaluation
\* tabulate f once, where every application would compute its value anew
Table(f) == IF f = f THEN f ELSE f

RECURSIVE Forward(_, _, _, _, _, _, _)
\* the forward pass from frame t on; prev is score[t-1], ptrs the backpointers
Forward(wA, wP, S, T, t, prev, ptrs) ==
    IF t >= T THEN [last |-> prev, ptr |-> ptrs]
    ELSE LET bp  == [s \in 0..(S - 1) |->
                        ArgMax([s1 \in 0..(S - 1) |-> prev[s1] * wA[s1][s]], S)]
             cur == [s \in 0..(S - 1) |-> prev[bp[s]] * wA[bp[s]][s] * wP[s][t]]
         IN  Forward(wA, wP, S, T, t + 1, Table(cur), Append(ptrs, Table(bp)))

RECURSIVE Backtrack(_, _, _)
\* acc holds the states of frames t..T-1; ptrs[t] are the backpointers of frame t
Backtrack(ptrs, t, acc) ==
    IF t = 0 THEN acc
    ELSE Backtrack(ptrs, t - 1, <<ptrs[t][Head(acc)]>> \o acc)

viterbi(P, transition, p_init) ==
    LET S == Cardinality(DOMAIN transition)
        T == Cardinality(DOMAIN P[0])
    IN  IF T = 0 THEN Raise("DecodeError")
        ELSE LET wA == Table(Weights(transition))
                 wP == Table(Weights(P))
                 s0 == [s \in 0..(S - 1) |-> p_init[s] * wP[s][0]]
                 f  == Forward(wA, wP, S, T, 1, s0, <<>>)
             IN  Return(Backtrack(f.ptr, T - 1, <<ArgMax(f.last, S)>>))

\* lines 250-251: init_mat = zeros, init_mat[0] = 1
init_mat(size) == [s \in 0..(size - 1) |-> IF s = 0 THEN 1 ELSE 0]

\* ------------------------------------------------------------------------
\* WavToMidi.convert_states_to_pianoroll
\* ------------------------------------------------------------------------
\* librosa.midi_to_note: the note name of a (rounded) MIDI number, as its
\* pitch class and octave; the pitches of this program are whole numbers
midi_to_note(midi) ==
    LET k == RTrunc(RAdd(midi, Rat(1, 2)))
    IN  [class |-> k % 12, octave |-> (k \div 12) - 1]

\* faulty variant: the onset is moved back by one frame
StartNote_early(v, i, s, midi_min, hop) ==
    LET midi == RAdd(RDiv(RInt(s - 1), RInt(2)), RInt(midi_min))
    IN  [v EXCEPT !.last_onset = RMul(RInt(i - 1), hop),
                  !.last_midi = midi,
                  !.last_note = midi_to_note(midi),
                  !.my_state = "onset"]

\* lines 171-174 and 190-193: a note starts at frame i
StartNote(v, i, s, midi_min, hop) ==
    LET midi == RAdd(RDiv(RInt(s - 1), RInt(2)), RInt(midi_min))
    IN  [v EXCEPT !.last_onset = RMul(RInt(i), hop),
                  !.last_midi = midi,
                  !.last_note = midi_to_note(midi),
                  !.my_state = "onset"]

\* faulty variant: a note is closed one frame late
FinishNote_late(v, i, hop) ==
    LET off == RMul(RInt(i + 1), hop)
    IN  [v EXCEPT !.last_offset = off,
                  !.output = Append(v.output,
                                    [onset |-> v.last_onset, offset |-> off,
                                     midi |-> v.last_midi, note |-> v.last_note])]

\* lines 185-187 and 197-199: the note in progress ends at frame i
FinishNote(v, i, hop) ==
    LET off == RMul(RInt(i), hop)
    IN  [v EXCEPT !.last_offset = off,
                  !.output = Append(v.output,
                                    [onset |-> v.last_onset, offset |-> off,
                                     midi |-> v.last_midi, note |-> v.last_note])]

\* lines 168-200: one iteration of the loop, on states_[i] = s
SegmentStep(v, i, s, midi_min, hop) ==
    IF v.my_state = "silence"
    THEN IF s % 2 # 0 THEN StartNote(v, i, s, midi_min, hop) ELSE v
    ELSE IF v.my_state = "onset"
    THEN IF s % 2 = 0 THEN [v EXCEPT !.my_state = "sustain"] ELSE v
    ELSE IF s % 2 # 0 THEN StartNote(FinishNote(v, i, hop), i, s, midi_min, hop)
    ELSE IF s = 0 THEN [FinishNote(v, i, hop) EXCEPT !.my_state = "silence"]
    ELSE v

RECURSIVE SegmentLoop(_, _, _, _, _)
\* line 167: for i in range(len(states_)); element i is states_[i + 1] here
SegmentLoop(v, i, states_, midi_min, hop) ==
    IF i >= Len(states_) THEN v
    ELSE SegmentLoop(SegmentStep(v, i, states_[i + 1], midi_min, hop),
                     i + 1, states_, midi_min, hop)

convert_states_to_pianoroll(sts, midi_min, midi_max, hop) ==
    LET states_ == Append(sts, 0)
        v0 == [my_state |-> "silence", output |-> <<>>,
               last_onset |-> RInt(0), last_offset |-> RInt(0),
               last_midi |-> RInt(0), last_note |-> Null]
    IN  SegmentLoop(v0, 0, states_, midi_min, hop).output

\* ------------------------------------------------------------------------
\* WavToMidi.convert_pianoroll_to_midi
\* ------------------------------------------------------------------------
\* The MIDIFile is modelled by what the function puts into it: the tempo
\* events and the notes, in the order of the addTempo and addNote calls.
\* tempo is librosa.beat.tempo(y)[0].

\* line 228: the velocity of every note
Velocity == 100

\* faulty variant: the offset is taken for the duration
Duration_offset_only(p, quarter_note) == RDiv(p.offset, quarter_note)

\* line 222: durations = offsets - onsets, both already divided
Duration(p, quarter_note) == RSub(RDiv(p.offset, quarter_note), RDiv(p.onset, quarter_note))

\* line 228: MyMIDI.addNote(0, 0, int(pianoroll[i][2]), onsets[i], durations[i], 100)
AddNote(p, quarter_note) ==
    [track |-> 0, channel |-> 0, pitch |-> RTrunc(p.midi),
     time |-> RDiv(p.onset, quarter_note),
     duration |-> Duration(p, quarter_note),
     volume |-> Velocity]

convert_pianoroll_to_midi(tempo, pianoroll) ==
    LET quarter_note == RDiv(RInt(60), tempo)
    IN  [numTracks |-> 1,
         tempos |-> <<[track |-> 0, time |-> 0, tempo |-> tempo]>>,
         notes  |-> [i \in 1..Len(pianoroll) |-> AddNote(pianoroll[i], quarter_note)]]

\* ------------------------------------------------------------------------
\* Inputs
\* ------------------------------------------------------------------------
\* minimum_note = 'A2' (line 235), as a MIDI number
A2 == 45

\* probability arguments, inside and outside the open interval (0,1)
AnyProb == {Rat(-1, 4), RInt(0), Rat(1, 4), Rat(1, 2), Rat(3, 4), RInt(1), Rat(5, 4)}
InUnit(p) == RLess(RInt(0), p) /\ RLess(p, RInt(1))

\* (p_stay_note, p_stay_silence) of a conversion
StayProbs == {<<Rat(3, 4), Rat(1, 4)>>, <<Rat(1, 2), Rat(1, 2)>>}

\* the confidences of a conversion, all in (0,1) and pairwise different
Confidences ==
    {[pitch_acc |-> Rat(7, 8), voiced_acc |-> Rat(3, 4), onset_acc |-> Rat(5, 8), spread |-> Rat(1, 2)],
     [pitch_acc |-> Rat(3, 4), voiced_acc |-> Rat(7, 8), onset_acc |-> Rat(5, 8), spread |-> Rat(1, 4)]}

\* pitch estimates: the lowest note and the note two semitones above it
Pitches == {A2, A2 + 2}

\* estimated tempos, in beats per minute
Tempos == {RInt(120), RInt(90)}

\* hop_length / sr of convert_file (line 255) with librosa's default rate
HopOfConvert == Rat(256, 22050)

NoEvidence == f0_ = <<>> /\ voiced_flag = <<>> /\ onsets = {}
NoResults ==
    /\ prob = Null /\ piano_format = <<>> /\ bpm = Null /\ midi_format = Null
    /\ error = "none"

\* ------------------------------------------------------------------------
\* app.py: the upload handlers
\* ------------------------------------------------------------------------
\* Two requests are in flight; the server runs each handler in a thread of
\* its own, so the steps of the handlers interleave at the file operations.
Requests == {1, 2}

\* what a client uploads: two signals that convert, a file that is no audio
\* (librosa.load raises) and a signal the analysis raises on
Contents == {"signal1", "signal2", "not_audio", "unanalysable"}
FailsAt(content) ==
    CASE content = "not_audio" -> "load"
      [] content = "unanalysable" -> "calc_probabilities"
      [] OTHER -> "none"

\* uploaded_file.filename.split('.')
Filenames == {<<"a", "wav">>, <<"b", "wav">>, <<"a", "txt">>, <<"">>}

\* the MIDI file written for a signal
Midi(content) == <<"midi", content>>

Absent == "absent"
Paths == {<<"a", "wav">>, <<"a", "mid">>, <<"b", "wav">>, <<"b", "mid">>,
          <<"wav_file", "wav">>, <<"wav_file", "mid">>}

\* lines 39-42 and 55-56: where a request keeps its input and its output
FileIn(rq) == IF rq.route = "uploader" THEN <<rq.filename[1], "wav">> ELSE <<"wav_file", "wav">>
FileOut(rq) == IF rq.route = "uploader" THEN <<rq.filename[1], "mid">> ELSE <<"wav_file", "mid">>

\* lines 44 and 46: the one error response of upload_file
UploadError == [status |-> 400, body |-> "Error in the uploaded file"]
\* upload_wav_link catches nothing: the framework answers the exception
ServerError == [status |-> 500, body |-> "Internal Server Error"]

\* an exception raised in stage `stage` of request r's conversion (lines 42, 45-46, 56)
Fails(r, stage) ==
    /\ failed' = [failed EXCEPT ![r] = stage]
    /\ response' = [response EXCEPT ![r] =
                        IF request[r].route = "uploader" THEN UploadError ELSE ServerError]
    /\ rpc' = [rpc EXCEPT ![r] = "done"]

\* a request arrives
Receive(r) ==
    /\ rpc[r] = "idle"
    /\ \/ \E fn \in Filenames, c \in Contents :
             request' = [request EXCEPT ![r] = [route |-> "uploader", filename |-> fn, content |-> c]]
       \/ \E c \in Contents :
             request' = [request EXCEPT ![r] = [route |-> "upload_wav_link", filename |-> <<>>, content |-> c]]
    /\ rpc' = [rpc EXCEPT ![r] = "received"]
    /\ UNCHANGED <<coreVars, files, loaded, failed, response>>

\* upload_file, lines 32-40 and 44: check the file name, save the upload
UploadSave(r) ==
    /\ rpc[r] = "received"
    /\ request[r].route = "uploader"
    /\ LET split == request[r].filename
       IN  IF split # <<"">> /\ Len(split) = 2 /\ split[2] = "wav"
           THEN /\ files' = [files EXCEPT ![FileIn(request[r])] = request[r].content]
                /\ rpc' = [rpc EXCEPT ![r] = "saved"]
                /\ UNCHANGED <<failed, response>>
           ELSE /\ failed' = [failed EXCEPT ![r] = "input"]
                /\ response' = [response EXCEPT ![r] = UploadError]
                /\ rpc' = [rpc EXCEPT ![r] = "done"]
                /\ UNCHANGED files
    /\ UNCHANGED <<coreVars, request, loaded>>

\* upload_wav_link, lines 53-55: download the file and save it
LinkSave(r) ==
    /\ rpc[r] = "received"
    /\ request[r].route = "upload_wav_link"
    /\ files' = [files EXCEPT ![FileIn(request[r])] = request[r].content]
    /\ rpc' = [rpc EXCEPT ![r] = "saved"]
    /\ UNCHANGED <<coreVars, request, loaded, failed, response>>

\* convert_file, line 245: y, sr = librosa.load(file_in)
ConvertLoad(r) ==
    /\ rpc[r] = "saved"
    /\ LET content == files[FileIn(request[r])]
       IN  IF FailsAt(content) = "load"
           THEN Fails(r, "load") /\ UNCHANGED loaded
           ELSE /\ loaded' = [loaded EXCEPT ![r] = content]
                /\ rpc' = [rpc EXCEPT ![r] = "loaded"]
                /\ UNCHANGED <<failed, response>>
    /\ UNCHANGED <<coreVars, files, request>>

\* convert_file, lines 247-259: compute the track and write file_out
ConvertWrite(r) ==
    /\ rpc[r] = "loaded"
    /\ IF FailsAt(loaded[r]) # "none"
       THEN Fails(r, FailsAt(loaded[r])) /\ UNCHANGED files
       ELSE /\ files' = [files EXCEPT ![FileOut(request[r])] = Midi(loaded[r])]
            /\ rpc' = [rpc EXCEPT ![r] = "converted"]
            /\ UNCHANGED <<failed, response>>
    /\ UNCHANGED <<coreVars, request, loaded>>

\* lines 43 and 58: send_file(file_out)
Send(r) ==
    /\ rpc[r] = "converted"
    /\ response' = [response EXCEPT ![r] = [status |-> 200, body |-> files[FileOut(request[r])]]]
    /\ rpc' = [rpc EXCEPT ![r] = "done"]
    /\ UNCHANGED <<coreVars, files, request, loaded, failed>>

AppIdle ==
    /\ files = [p \in Paths |-> Absent]
    /\ request = [r \in Requests |-> Null]
    /\ rpc = [r \in Requests |-> "idle"]
    /\ loaded = [r \in Requests |-> Null]
    /\ failed = [r \in Requests |-> "none"]
    /\ response = [r \in Requests |-> Null]

\* ------------------------------------------------------------------------
\* Operations
\* ------------------------------------------------------------------------
\* line 247
Build ==
    /\ pc = "start"
    /\ LET r == build_transition_matrix(minimum_note, max_note, p_stay_note, p_stay_silence)
       IN  IF r.kind = "raise"
           THEN pc' = "raised" /\ error' = r.exc /\ tran_matrix' = tran_matrix
           ELSE pc' = "built" /\ error' = error /\ tran_matrix' = r.value
    /\ UNCHANGED <<configVars, evidenceVars, prob, states, piano_format, bpm, midi_format, appVars>>

\* lines 248-249; the signal is given by what the acoustic analysis finds in it
Calc ==
    /\ pc = "built"
    /\ \E T \in 0..MaxFrames :
         \E f0 \in [1..T -> Pitches], vf \in [1..T -> BOOLEAN], on \in SUBSET (0..(T - 1)) :
            /\ f0_' = f0
            /\ voiced_flag' = vf
            /\ onsets' = on
            /\ prob' = calc_probabilities(f0, vf, on, minimum_note, max_note, conf)
    /\ pc' = "priors"
    /\ UNCHANGED <<configVars, tran_matrix, states, piano_format, bpm, midi_format, error, appVars>>

\* lines 250-253
Decode ==
    /\ pc = "priors"
    /\ LET r == viterbi(prob, tran_matrix, init_mat(Cardinality(DOMAIN tran_matrix)))
       IN  IF r.kind = "raise"
           THEN pc' = "raised" /\ error' = r.exc /\ states' = states
           ELSE pc' = "decoded" /\ error' = error /\ states' = r.value
    /\ UNCHANGED <<configVars, tran_matrix, evidenceVars, prob, piano_format, bpm, midi_format, appVars>>

\* line 255
Segment ==
    /\ pc = "decoded"
    /\ piano_format' = convert_states_to_pianoroll(states, minimum_note, max_note, hop_time)
    /\ pc' = "segmented"
    /\ UNCHANGED <<configVars, tran_matrix, evidenceVars, prob, states, bpm, midi_format, error, appVars>>

\* line 257; the tempo is estimated from the signal
Emit ==
    /\ pc = "segmented"
    /\ \E tempo \in Tempos :
         /\ bpm' = tempo
         /\ midi_format' = convert_pianoroll_to_midi(tempo, piano_format)
    /\ pc' = "emitted"
    /\ UNCHANGED <<configVars, tran_matrix, evidenceVars, prob, states, piano_format, error, appVars>>

\* ------------------------------------------------------------------------
\* Specification of build_transition_matrix on arbitrary arguments
\* ------------------------------------------------------------------------
InitMatrix ==
    /\ pc = "start"
    /\ minimum_note = A2
    /\ max_note \in (A2 - 3)..(A2 + MaxNotes - 1)
    /\ p_stay_note \in AnyProb
    /\ p_stay_silence \in AnyProb
    /\ tran_matrix = Null
    /\ conf = Null /\ hop_time = Null /\ states = <<>>
    /\ NoEvidence /\ NoResults /\ AppIdle

SpecMatrix == InitMatrix /\ [][Build]_vars

\* ------------------------------------------------------------------------
\* Specification of a conversion (convert_file, lines 247-257)
\* ------------------------------------------------------------------------
InitConvert ==
    /\ pc = "start"
    /\ minimum_note = A2
    /\ max_note \in A2..(A2 + MaxNotes - 1)
    /\ \E sp \in StayProbs : p_stay_note = sp[1] /\ p_stay_silence = sp[2]
    /\ conf \in Confidences
    /\ hop_time = HopOfConvert
    /\ tran_matrix = Null /\ states = <<>>
    /\ NoEvidence /\ NoResults /\ AppIdle

NextConvert == Build \/ Calc \/ Decode \/ Segment \/ Emit

SpecConvert == InitConvert /\ [][NextConvert]_vars

\* ------------------------------------------------------------------------
\* Specification of the segmenter and the emitter on arbitrary sequences
\* ------------------------------------------------------------------------
\* every sequence of state indices of the note range, valid path or not
InitSegment ==
    /\ pc = "decoded"
    /\ \E mh \in {<<60, Rat(1, 10)>>, <<A2, HopOfConvert>>} :
          minimum_note = mh[1] /\ hop_time = mh[2]
    /\ max_note \in minimum_note..(minimum_note + 1)
    /\ p_stay_note = Rat(1, 2) /\ p_stay_silence = Rat(1, 2)
    /\ tran_matrix = build_transition_matrix(minimum_note, max_note,
                                             p_stay_note, p_stay_silence).value
    /\ conf = Null
    /\ states \in UNION {[1..L -> 0..(2 * (max_note - minimum_note + 1))] : L \in 0..MaxLen}
    /\ NoEvidence /\ NoResults /\ AppIdle

NextSegment == Segment \/ Emit

SpecSegment == InitSegment /\ [][NextSegment]_vars

\* ------------------------------------------------------------------------
\* Specification of the web application serving two requests
\* ------------------------------------------------------------------------
InitApp ==
    /\ pc = "idle"
    /\ minimum_note = A2 /\ max_note = A2
    /\ p_stay_note = Null /\ p_stay_silence = Null
    /\ tran_matrix = Null /\ conf = Null /\ hop_time = Null /\ states = <<>>
    /\ NoEvidence /\ NoResults /\ AppIdle

NextApp ==
    \E r \in Requests :
        \/ Receive(r)
        \/ UploadSave(r)
        \/ LinkSave(r)
        \/ ConvertLoad(r)
        \/ ConvertWrite(r)
        \/ Send(r)

SpecApp == InitApp /\ [][NextApp]_vars

\* ------------------------------------------------------------------------
\* Claims
\* ------------------------------------------------------------------------
n_notes_of == max_note - minimum_note + 1
Size == 2 * n_notes_of + 1

\* C7: for n_notes >= 1 and both probabilities in (0,1) the built matrix is
\* square of size 2*n_notes+1, every entry is >= 0 and every row sums to 1.
C7_RowStochastic ==
    (pc # "start" /\ n_notes_of >= 1 /\ InUnit(p_stay_note) /\ InUnit(p_stay_silence)) =>
        /\ pc = "built"
        /\ DOMAIN tran_matrix = 0..(Size - 1)
        /\ \A r \in 0..(Size - 1) :
              /\ DOMAIN tran_matrix[r] = 0..(Size - 1)
              /\ \A c \in 0..(Size - 1) : RLeq(RInt(0), tran_matrix[r][c])
              /\ RSum(tran_matrix[r], 0, Size - 1) = RInt(1)

C7_Witness ==
    /\ pc = "built"
    /\ n_notes_of = 2
    /\ p_stay_note = Rat(3, 4)
    /\ p_stay_silence = Rat(1, 4)
    /\ tran_matrix[4][1] = Rat(1, 12)

\* C5: build_transition_matrix fails with a ConfigError, before any matrix
\* is built or returned, whenever minimum_note > max_note or one of the two
\* probabilities lies outside the open interval (0,1).
C5_ConfigErrorOnInvalid ==
    (pc # "start" /\ (minimum_note > max_note
                      \/ ~InUnit(p_stay_note) \/ ~InUnit(p_stay_silence))) =>
        (pc = "raised" /\ error = "ConfigError" /\ tran_matrix = Null)


\* ---- the segmenter -----------------------------------------------------
Segmented == pc \in {"segmented", "emitted"}

\* the frames the segmenter reads: the sequence and the appended silence
\* frame; frame i is FrameState(i), for i in 0..Len(states)
FrameState(i) == Append(states, 0)[i + 1]
IsOnset(s) == s % 2 = 1
NoteOf(s) == (s - 1) \div 2
Time(i) == RMul(RInt(i), hop_time)

\* a path of the transition matrix that starts in Silence
ValidPath ==
    /\ Len(states) >= 1 => states[1] = 0
    /\ \A k \in 1..(Len(states) - 1) : tran_matrix[states[k]][states[k + 1]] # RInt(0)

\* <<a, b>>: frame a is Onset(i), frames a+1..b-1 are Sustain(i), at least
\* one, and frame b is a Silence or an Onset frame
Runs ==
    {r \in (0..Len(states)) \X (0..Len(states)) :
        /\ r[1] + 2 <= r[2]
        /\ IsOnset(FrameState(r[1]))
        /\ \A k \in (r[1] + 1)..(r[2] - 1) : FrameState(k) = FrameState(r[1]) + 1
        /\ (FrameState(r[2]) = 0 \/ IsOnset(FrameState(r[2])))}

EventOfRun(e, r) ==
    /\ e.onset = Time(r[1])
    /\ e.offset = Time(r[2])
    /\ e.midi = RInt(minimum_note + NoteOf(FrameState(r[1])))

OnsetFrames == {k \in 1..Len(states) : IsOnset(states[k])}

\* C1: on a valid path from Silence, a note still open at the last real
\* frame (last state Sustain(i) or Onset(i)) is closed by the appended
\* silence frame with offset_time = length * hop_time, and no opened note
\* (one per Onset frame) is left out of the output.
C1_TrailingNoteClosed ==
    (Segmented /\ ValidPath /\ Len(states) >= 1 /\ states[Len(states)] # 0) =>
        /\ Len(piano_format) >= 1
        /\ piano_format[Len(piano_format)].offset = Time(Len(states))
        /\ Len(piano_format) = Cardinality(OnsetFrames)

\* C2: on a valid path from Silence the output holds, in frame order,
\* exactly one event per run Onset(i), Sustain(i), ..., Sustain(i) ended by
\* a Silence or Onset frame (the appended silence frame included), with
\* onset = index of the Onset frame * hop_time, offset = index of the ending
\* frame * hop_time, pitch = minimum_note + i, and nothing else; an all-zero
\* sequence gives the empty list and [0,1,2,2,0] with hop_time 0.1 and
\* minimum_note 60 gives the single event (0.1, 0.4, 60).
C2_OneEventPerRun ==
    (Segmented /\ ValidPath) =>
        /\ Len(piano_format) = Cardinality(Runs)
        /\ \A k \in 1..Len(piano_format) : \E r \in Runs : EventOfRun(piano_format[k], r)
        /\ \A r \in Runs : \E k \in 1..Len(piano_format) : EventOfRun(piano_format[k], r)
        /\ \A k \in 1..(Len(piano_format) - 1) :
              RLess(piano_format[k].onset, piano_format[k + 1].onset)
        /\ (\A k \in 1..Len(states) : states[k] = 0) => piano_format = <<>>
        /\ (states = <<0, 1, 2, 2, 0>> /\ hop_time = Rat(1, 10) /\ minimum_note = 60) =>
              /\ Len(piano_format) = 1
              /\ piano_format[1].onset = Rat(1, 10)
              /\ piano_format[1].offset = Rat(4, 10)
              /\ piano_format[1].midi = RInt(60)

C2_Witness ==
    /\ pc = "segmented"
    /\ states = <<0, 1, 2, 3, 4>>
    /\ max_note = minimum_note + 1
    /\ Len(piano_format) = 2
    /\ piano_format[2].offset = Time(5)

\* C3: for every sequence of state indices, valid path or not, every event
\* has offset_time > onset_time and each event starts no earlier than the
\* event before it ends (sorted by onset, no overlap).
C3_OrderedDisjoint ==
    Segmented =>
        /\ \A k \in 1..Len(piano_format) :
              RLess(piano_format[k].onset, piano_format[k].offset)
        /\ \A k \in 1..(Len(piano_format) - 1) :
              RLeq(piano_format[k].offset, piano_format[k + 1].onset)

C3_Witness ==
    /\ pc = "segmented"
    /\ ~ValidPath
    /\ Len(piano_format) = 2
    /\ piano_format[2].onset = piano_format[1].offset

\* ---- the emitter -------------------------------------------------------
QuarterNote == RDiv(RInt(60), bpm)

\* the (pitch, quantized onset, quantized duration) of a note event
QuantizedTuple(e) ==
    <<e.midi, RDiv(e.onset, QuarterNote), RDiv(RSub(e.offset, e.onset), QuarterNote)>>

\* the same tuple read back from a note of the track
ReadBack(note) == <<RInt(note.pitch), note.time, note.duration>>

HasPriors == pc \notin {"start", "built"}

Decoded == pc \in {"decoded", "segmented", "emitted"}

\* C10: the decoded sequence starts in Silence, every consecutive pair of
\* states has non-zero transition probability, every Onset(i) frame but the
\* last is followed by Sustain(i), and Silence is never followed by a
\* Sustain state.
C10_DecodedIsValidPath ==
    Decoded =>
        /\ Len(states) = Len(f0_)
        /\ states[1] = 0
        /\ \A k \in 1..(Len(states) - 1) :
              /\ tran_matrix[states[k]][states[k + 1]] # RInt(0)
              /\ IsOnset(states[k]) => states[k + 1] = states[k] + 1
              /\ states[k] = 0 => (states[k + 1] = 0 \/ IsOnset(states[k + 1]))

C10_Witness ==
    /\ pc = "decoded"
    /\ Len(states) = 3
    /\ states[1] = 0
    /\ IsOnset(states[2])
    /\ states[3] = states[2] + 1

\* ---- the web application -----------------------------------------------
\* a request whose file name is accepted and whose signal converts
Convertible(rq) ==
    /\ rq.route = "uploader" => (Len(rq.filename) = 2 /\ rq.filename[2] = "wav")
    /\ FailsAt(rq.content) = "none"

\* C4: concurrent conversions of different inputs are independent: with the
\* steps of two requests interleaved (save the input file, convert, send
\* the output file), each request's response is the MIDI conversion of that
\* request's own input.  Stated for requests that all carry a signal that
\* converts.
C4_OwnConversion ==
    (\A q \in Requests : rpc[q] # "idle" => Convertible(request[q])) =>
        \A r \in Requests :
            rpc[r] = "done" =>
                response[r] = [status |-> 200, body |-> Midi(request[r].content)]

\* C6: every failure aborts the conversion and is reported so that the
\* failed stage can be told, bad input apart from an internal failure: two
\* requests that failed in different stages get different responses, and no
\* failed request is answered as a success.
C6_FailureIdentifiesStage ==
    /\ \A r \in Requests : (rpc[r] = "done" /\ failed[r] # "none") => response[r].status # 200
    /\ \A r1, r2 \in Requests :
          (rpc[r1] = "done" /\ rpc[r2] = "done" /\ failed[r1] # failed[r2]) =>
              response[r1] # response[r2]

====
